---------------------------- MODULE Spec2Model ----------------------------
(***************************************************************************)
(* Fraction blocks: the FractionBlocks dataclass (fraction_blocks.py), its *)
(* command line (fire.Fire(FractionBlocks)), the batch driver              *)
(* (make_blocks.py) and the older module-level script (main.py).           *)
(*                                                                         *)
(* Numbers.  Python mixes ints and floats here.  Every number that ends up *)
(* in a solid-model tree is carried as an exact rational <<p, q>> in       *)
(* lowest terms with q > 0; an int i is <<i, 1>> and a float literal such  *)
(* as .05 is the decimal it is written as.  IEEE-754 rounding of the       *)
(* handful of operations involved (relative error below 2^-52) is not      *)
(* modelled; the properties below are stated up to that tolerance.         *)
(***************************************************************************)
EXTENDS Integers, Sequences, FiniteSets, TLC

VARIABLES
    prog,       \* which program runs: "none", "cli", "batch", "script"
    pc,         \* position in that program
    verb,       \* the FractionBlocks method being run
    block,      \* the FractionBlocks object in hand, or NoBlock
    oid,        \* identity of that object (objects constructed so far)
    err,        \* the exception that ended the run, or "none"
    tree,       \* the tree held in a local / argument, or NoTree
    files,      \* the .scad files on disk: a set of [name, tree]
    log,        \* external effects in order: writes and os.system calls
    i,          \* make_blocks: index into denominators (Len + 1: the pan)
    prefix,     \* make_blocks: the prefix argument
    failed,     \* history: some os.system call so far did not succeed
    args        \* keyword arguments of the latest FractionBlocks(...) call

vars == <<prog, pc, verb, block, oid, err, tree, files, log, i, prefix, failed, args>>

---------------------------------------------------------------------------
(* Bounds of the command-line inputs explored.                             *)

MaxNumerator == 2
MaxDenominator == 3
MaxFillet == 3
MaxWall == 3

---------------------------------------------------------------------------
(* Rational arithmetic standing for Python's numeric operators.            *)

Abs(x) == IF x < 0 THEN -x ELSE x

RECURSIVE Gcd(_, _)
Gcd(a, b) == IF b = 0 THEN a ELSE Gcd(b, a % b)

Rat(n, d) ==
    LET g == Gcd(Abs(n), Abs(d))
        s == IF d < 0 THEN -1 ELSE 1
    IN  <<(s * n) \div g, (s * d) \div g>>

Q(k) == <<k, 1>>

RAdd(x, y) == Rat(x[1] * y[2] + y[1] * x[2], x[2] * y[2])
RSub(x, y) == Rat(x[1] * y[2] - y[1] * x[2], x[2] * y[2])
RMul(x, y) == Rat(x[1] * y[1], x[2] * y[2])
RDiv(x, y) == Rat(x[1] * y[2], x[2] * y[1])
RLt(x, y) == x[1] * y[2] < y[1] * x[2]

(* Python's true division of two ints: raises on a zero divisor.           *)
Ok(v) == [exc |-> "none", val |-> v]
Raise(e) == [exc |-> e]

(* Variant: a zero divisor yields 0 instead of raising.                    *)
TrueDiv_unchecked(a, b) == IF b = 0 THEN Ok(Q(0)) ELSE Ok(Rat(a, b))

TrueDiv(a, b) == IF b = 0 THEN Raise("ZeroDivisionError") ELSE Ok(Rat(a, b))

str(k) == ToString(k)

---------------------------------------------------------------------------
(* solid.objects: each call builds one node; nothing is validated.         *)

text(s, size) ==
    [op |-> "text", text |-> s, valign |-> "center", halign |-> "center",
     size |-> size]
square(size) == [op |-> "square", size |-> size]
cylinder(r, h, segments) ==
    [op |-> "cylinder", r |-> r, h |-> h, segments |-> segments]
translate(v, children) == [op |-> "translate", v |-> v, children |-> children]
rotate(a, children) == [op |-> "rotate", a |-> a, children |-> children]
scale(v, children) == [op |-> "scale", v |-> v, children |-> children]
offset(r, children) == [op |-> "offset", r |-> r, children |-> children]
linear_extrude(height, children) ==
    [op |-> "linear_extrude", height |-> height, children |-> children]
rotate_extrude(angle, segments, children) ==
    [op |-> "rotate_extrude", angle |-> angle, segments |-> segments,
     children |-> children]
union(children) == [op |-> "union", children |-> children]
difference(children) == [op |-> "difference", children |-> children]

VINCULUM == "u2015"

---------------------------------------------------------------------------
(* fraction_blocks.py: the FractionBlocks dataclass.                       *)

NoBlock == [none |-> TRUE]
NoTree == [op |-> "none"]
NoArgs == [none |-> TRUE]

(* The dataclass fields' defaults.  _scad_file and _stl_file are declared  *)
(* init=False and never assigned, so no object ever carries them.          *)
Defaults ==
    [filename |-> "output.stl",
     numerator |-> 1,
     denominator |-> 3,
     slice_radius |-> 50,
     slice_height |-> 10,
     slice_pan_gap |-> 2,
     pan_floor_height |-> 3,
     pan_wall_width |-> 3,
     label_position |-> 3,
     label_divider_scale |-> Q(1),
     label_font_size |-> 13,
     fillet |-> 2,
     segments |-> 200]

(* Variant: 360 * (numerator // denominator), the fraction floored first.  *)
__post_init__floordiv(self) ==
    LET q == TrueDiv(360 * self.numerator, self.denominator)
    IN  IF q.exc # "none" THEN q
        ELSE Ok(self @@ [_angle |-> Q(360 * (self.numerator \div self.denominator))])

(* __post_init__: the derived angle, a float, or the division's exception. *)
__post_init__(self) ==
    LET q == TrueDiv(360 * self.numerator, self.denominator)
    IN  IF q.exc # "none" THEN q ELSE Ok(self @@ [_angle |-> q.val])

(* The generated __init__: keyword arguments over the defaults, then       *)
(* __post_init__.                                                          *)
FractionBlocks(kwargs) == __post_init__(kwargs @@ Defaults)

_assemble_text(self, string) == text(string, Q(self.label_font_size))

(* Variant: the vinculum placed at divide + .05 * slice_radius.            *)
_assemble_label_signslip(self) ==
    LET divide == RDiv(Q(self.slice_radius), Q(2))
        pos == Q(self.label_position)
    IN  union(<<
          rotate(Q(-90), <<
            linear_extrude(RMul(<<1, 5>>, Q(self.slice_height)), <<
              translate(<<Q(0), RAdd(RDiv(divide, Q(2)), pos), Q(0)>>, <<
                rotate(Q(180), <<_assemble_text(self, str(self.numerator))>>)
              >>),
              translate(<<Q(0),
                          RAdd(RAdd(divide,
                                    RMul(<<1, 20>>, Q(self.slice_radius))),
                               pos),
                          Q(0)>>, <<
                scale(<<self.label_divider_scale, Q(1), Q(1)>>,
                      <<_assemble_text(self, VINCULUM)>>)
              >>),
              translate(<<Q(0),
                          RAdd(RAdd(divide, RDiv(divide, Q(2))), pos),
                          Q(0)>>, <<
                rotate(Q(180), <<_assemble_text(self, str(self.denominator))>>)
              >>)
            >>)
          >>)
        >>)

_assemble_label(self) ==
    LET divide == RDiv(Q(self.slice_radius), Q(2))
        pos == Q(self.label_position)
    IN  union(<<
          rotate(Q(-90), <<
            linear_extrude(RMul(<<1, 5>>, Q(self.slice_height)), <<
              translate(<<Q(0), RAdd(RDiv(divide, Q(2)), pos), Q(0)>>, <<
                rotate(Q(180), <<_assemble_text(self, str(self.numerator))>>)
              >>),
              translate(<<Q(0),
                          RAdd(RSub(divide,
                                    RMul(<<1, 20>>, Q(self.slice_radius))),
                               pos),
                          Q(0)>>, <<
                scale(<<self.label_divider_scale, Q(1), Q(1)>>,
                      <<_assemble_text(self, VINCULUM)>>)
              >>),
              translate(<<Q(0),
                          RAdd(RAdd(divide, RDiv(divide, Q(2))), pos),
                          Q(0)>>, <<
                rotate(Q(180), <<_assemble_text(self, str(self.denominator))>>)
              >>)
            >>)
          >>)
        >>)

_assemble_slice(self) ==
    rotate_extrude(self._angle, self.segments, <<
      translate(<<Q(self.fillet), Q(self.fillet), Q(0)>>, <<
        offset(Q(self.fillet), <<
          square(<<Q(self.slice_radius - 2 * self.fillet),
                   Q(self.slice_height - 2 * self.fillet)>>)
        >>)
      >>)
    >>)

_assemble_pie_slice(self) ==
    union(<<
      translate(<<Q(0), Q(0), Q(self.slice_height)>>, <<
        rotate(RDiv(self._angle, Q(2)), <<_assemble_label(self)>>)
      >>),
      _assemble_slice(self)
    >>)

_assemble_pie_pan(self) ==
    LET inner == self.slice_radius + self.slice_pan_gap
        outer == inner + self.pan_wall_width
    IN  difference(<<
          cylinder(Q(outer),
                   RAdd(Q(self.pan_floor_height),
                        RMul(Q(self.slice_height), <<4, 5>>)),
                   self.segments),
          translate(<<Q(0), Q(0), Q(self.pan_floor_height)>>, <<
            cylinder(Q(inner), Q(self.slice_height), self.segments)
          >>)
        >>)

(* Variant: the slice is never added to the test assembly.                 *)
test_add_slice_dropped(self, test_assembly) == test_assembly

(* test(): "test_assembly += translate(...)(slice)"; OpenSCADObject's +    *)
(* is a union of the two operands.                                         *)
test_add_slice(self, test_assembly) ==
    union(<<test_assembly,
            translate(<<Q(0), Q(0), Q(self.pan_floor_height)>>,
                      <<_assemble_pie_slice(self)>>)>>)

(* scad_render_to_file(tree, filename): the file now holds the tree.       *)
scad_render_to_file(fs, t, filename) ==
    {f \in fs : f.name # filename} \cup {[name |-> filename, tree |-> t]}

Write(name) == [ev |-> "write", file |-> name]

---------------------------------------------------------------------------
(* main.py: the module-level script.  Its parameters are module globals.   *)

numerator == 1
denominator == 3
segments == 90
slop == <<3, 100>>
fillet == 1
radius == 50
height == 10
make_base == FALSE
test_fit == FALSE
thickness == RMul(<<1, 4>>, Q(height))
edge_thickness == RMul(<<1, 4>>, Q(height))
text_position == RMul(<<1, 20>>, Q(radius))
use_default_tweaks == TRUE

divider_bar ==
    IF use_default_tweaks /\ <<numerator, denominator>> = <<1, 16>> THEN <<1, 2>>
    ELSE IF use_default_tweaks /\ <<numerator, denominator>> = <<1, 12>> THEN <<3, 4>>
    ELSE IF use_default_tweaks /\ <<numerator, denominator>> = <<1, 10>> THEN <<9, 10>>
    ELSE Q(1)

text_size ==
    IF use_default_tweaks /\ <<numerator, denominator>> = <<1, 16>>
    THEN RDiv(Q(radius), Q(6))
    ELSE RDiv(Q(radius), Q(4))

angle == RMul(Q(360), TrueDiv(numerator, denominator).val)

ftext(s) == text(s, text_size)

label ==
    LET divide == RDiv(Q(radius), Q(2))
    IN  union(<<
          rotate(Q(-90), <<
            linear_extrude(RMul(<<1, 5>>, Q(height)), <<
              translate(<<Q(0), RAdd(RDiv(divide, Q(2)), text_position)>>, <<
                rotate(Q(180), <<ftext(str(numerator))>>)
              >>),
              translate(<<Q(0),
                          RAdd(RSub(divide, RMul(<<1, 20>>, Q(radius))),
                               text_position)>>, <<
                scale(<<divider_bar, Q(1), Q(1)>>, <<ftext(VINCULUM)>>)
              >>),
              translate(<<Q(0),
                          RAdd(RAdd(divide, RDiv(divide, Q(2))),
                               text_position)>>, <<
                rotate(Q(180), <<ftext(str(denominator))>>)
              >>)
            >>)
          >>)
        >>)

slice ==
    rotate_extrude(TrueDiv(360 * numerator, denominator).val, segments, <<
      translate(<<Q(fillet), Q(fillet), Q(0)>>, <<
        offset(Q(fillet), <<
          square(<<Q(radius - 2 * fillet), Q(height - 2 * fillet)>>)
        >>)
      >>)
    >>)

fraction ==
    union(<<
      translate(<<Q(0), Q(0), Q(height)>>, <<
        rotate(RDiv(angle, Q(2)), <<label>>)
      >>),
      slice
    >>)

base ==
    LET inner == RAdd(Q(radius), RMul(slop, Q(radius)))
        outer == RAdd(inner, edge_thickness)
    IN  difference(<<
          cylinder(outer, RMul(Q(height), <<4, 5>>), segments),
          translate(<<Q(0), Q(0), thickness>>, <<
            cylinder(inner, RMul(Q(height), <<4, 5>>), segments)
          >>)
        >>)

(* The script's __main__ block up to the render call.                      *)
main_assembly ==
    IF make_base
    THEN IF test_fit
         THEN union(<<base, translate(<<Q(0), Q(0), thickness>>, <<fraction>>)>>)
         ELSE base
    ELSE fraction

(* scad_render_to_file without a path names the file after the script.     *)
MainScad == "main.scad"

---------------------------------------------------------------------------
(* make_blocks.py                                                          *)

denominators == <<1, 2, 3, 4, 5, 6, 7, 8, 9, 10, 12, 16>>

(* Variant: the case for the narrow sectors misses 9.                      *)
block_kwargs_without9(den) ==
    IF den \in {10, 12, 16}
    THEN [denominator |-> den, label_font_size |-> 9,
          label_divider_scale |-> <<7, 10>>, label_position |-> 2]
    ELSE [denominator |-> den]

(* The match statement: the keyword arguments of the block to build.       *)
block_kwargs(den) ==
    IF den \in {9, 10, 12, 16}
    THEN [denominator |-> den, label_font_size |-> 9,
          label_divider_scale |-> <<7, 10>>, label_position |-> 2]
    ELSE [denominator |-> den]

filename_prefix(p, b) ==
    p \o "_" \o str(b.numerator) \o "_" \o str(b.denominator)

pan_prefix(p) == p \o "_pie_pan"

(* The file names of the pipeline make_blocks is in.                       *)
current_prefix ==
    IF i <= Len(denominators) THEN filename_prefix(prefix, block)
    ELSE pan_prefix(prefix)

scad_name(fp) == fp \o ".scad"
stl_name(fp) == fp \o ".stl"

(* Variant: the command's two file names swapped.                          *)
System_swapped(fp) ==
    [ev |-> "system", input |-> stl_name(fp), output |-> scad_name(fp)]

(* os.system('openscad -o <fp>.stl --export-format binstl <fp>.scad ...')  *)
System(fp) == [ev |-> "system", input |-> scad_name(fp), output |-> stl_name(fp)]

(* What the renderer process may do; os.system's return value is dropped.  *)
ExitStatuses == {"ok", "nonzero", "no_output"}

---------------------------------------------------------------------------
(* Inputs explored.                                                        *)

Verbs == {"pie_slice", "pie_pan", "test"}
Numerators == 0..MaxNumerator
Denominators == 0..MaxDenominator
Radii == {1, 4, 50}
Heights == {4, 10}
Fillets == 0..MaxFillet
Gaps == {-4, -1, 2}
Walls == (-1)..MaxWall
Positions == {-2, 3}
Prefixes == {"fb", "x"}

CliArgs ==
    [numerator : Numerators, denominator : Denominators,
     slice_radius : Radii, slice_height : Heights, fillet : Fillets,
     slice_pan_gap : Gaps, pan_wall_width : Walls, label_position : Positions]

---------------------------------------------------------------------------
(* The state machine.                                                      *)

Init ==
    /\ prog = "none"
    /\ pc = "start"
    /\ verb = "none"
    /\ block = NoBlock
    /\ oid = 0
    /\ err = "none"
    /\ tree = NoTree
    /\ files = {}
    /\ log = <<>>
    /\ i = 0
    /\ prefix = ""
    /\ failed = FALSE
    /\ args = NoArgs

(* Evaluate FractionBlocks(kwargs) and bind the result, or propagate the  *)
(* exception out of the program.                                           *)
Construct(kwargs, next) ==
    LET r == FractionBlocks(kwargs)
    IN  /\ args' = kwargs
        /\ IF r.exc # "none"
           THEN /\ err' = r.exc
                /\ pc' = "aborted"
                /\ UNCHANGED <<block, oid>>
           ELSE /\ block' = r.val
                /\ oid' = oid + 1
                /\ pc' = next
                /\ err' = err

(* fire.Fire(FractionBlocks): construct from the flags, then call the verb *)
Fire ==
    /\ prog = "none" /\ pc = "start"
    /\ \E kwargs \in CliArgs, v \in Verbs :
          /\ prog' = "cli"
          /\ verb' = v
          /\ Construct(kwargs, "constructed")
    /\ UNCHANGED <<tree, files, log, i, prefix, failed>>

(* pie_slice(): the argument of the render call is evaluated first.        *)
pie_slice ==
    /\ pc = "constructed" /\ verb = "pie_slice"
    /\ tree' = _assemble_pie_slice(block)
    /\ pc' = "assembled"
    /\ UNCHANGED <<prog, verb, block, oid, err, files, log, i, prefix, failed, args>>

pie_pan ==
    /\ pc = "constructed" /\ verb = "pie_pan"
    /\ tree' = _assemble_pie_pan(block)
    /\ pc' = "assembled"
    /\ UNCHANGED <<prog, verb, block, oid, err, files, log, i, prefix, failed, args>>

(* test(): test_assembly = self._assemble_pie_pan()                        *)
test_pan ==
    /\ pc = "constructed" /\ verb = "test"
    /\ tree' = _assemble_pie_pan(block)
    /\ pc' = "assembling"
    /\ UNCHANGED <<prog, verb, block, oid, err, files, log, i, prefix, failed, args>>

(* test(): test_assembly += translate(...)(self._assemble_pie_slice())     *)
test_slice ==
    /\ pc = "assembling"
    /\ tree' = test_add_slice(block, tree)
    /\ pc' = "assembled"
    /\ UNCHANGED <<prog, verb, block, oid, err, files, log, i, prefix, failed, args>>

(* The scad_render_to_file call that ends each of the three methods.       *)
render_to_file ==
    /\ pc = "assembled" /\ prog \in {"cli", "batch"}
    /\ files' = scad_render_to_file(files, tree, block.filename)
    /\ log' = Append(log, Write(block.filename))
    /\ tree' = NoTree
    /\ pc' = "written"
    /\ UNCHANGED <<prog, verb, block, oid, err, i, prefix, failed, args>>

CliReturn ==
    /\ prog = "cli" /\ pc = "written"
    /\ pc' = "done"
    /\ UNCHANGED <<prog, verb, block, oid, err, tree, files, log, i, prefix, failed, args>>

(* make_blocks(prefix)                                                     *)
make_blocks ==
    /\ prog = "none" /\ pc = "start"
    /\ \E p \in Prefixes : prefix' = p
    /\ prog' = "batch"
    /\ i' = 1
    /\ pc' = "loop"
    /\ UNCHANGED <<verb, block, oid, err, tree, files, log, failed, args>>

(* Loop body, the match statement: block = FractionBlocks(...)             *)
loop_construct ==
    /\ prog = "batch" /\ pc = "loop" /\ i <= Len(denominators)
    /\ Construct(block_kwargs(denominators[i]), "built")
    /\ verb' = "pie_slice"
    /\ UNCHANGED <<prog, tree, files, log, i, prefix, failed>>

(* Variant: the driver also reassigns the fraction after construction.     *)
loop_set_filename_and_fraction ==
    /\ prog = "batch" /\ pc = "built"
    /\ block' = [block EXCEPT !.filename = scad_name(filename_prefix(prefix, block)),
                              !.denominator = block.denominator + 1]
    /\ pc' = "constructed"
    /\ UNCHANGED <<prog, verb, oid, err, tree, files, log, i, prefix, failed, args>>

(* block.filename = f'{filename_prefix}.scad'                              *)
loop_set_filename ==
    /\ prog = "batch" /\ pc = "built"
    /\ block' = [block EXCEPT !.filename = scad_name(filename_prefix(prefix, block))]
    /\ pc' = "constructed"
    /\ UNCHANGED <<prog, verb, oid, err, tree, files, log, i, prefix, failed, args>>

(* os.system(...) after block.pie_slice() and after the pan's pie_pan():   *)
(* whatever the renderer does, the next statement runs.                    *)
os_system ==
    /\ prog = "batch" /\ pc = "written"
    /\ \E status \in ExitStatuses : failed' = (failed \/ status # "ok")
    /\ log' = Append(log, System(current_prefix))
    /\ IF i <= Len(denominators)
       THEN i' = i + 1 /\ pc' = "loop"
       ELSE i' = i /\ pc' = "done"
    /\ UNCHANGED <<prog, verb, block, oid, err, tree, files, prefix, args>>

(* FractionBlocks(filename=f'{prefix}_pie_pan.scad').pie_pan()             *)
pan_construct ==
    /\ prog = "batch" /\ pc = "loop" /\ i = Len(denominators) + 1
    /\ Construct([filename |-> scad_name(pan_prefix(prefix))], "constructed")
    /\ verb' = "pie_pan"
    /\ UNCHANGED <<prog, tree, files, log, i, prefix, failed>>

(* main.py run as a script                                                 *)
main_build ==
    /\ prog = "none" /\ pc = "start"
    /\ prog' = "script"
    /\ tree' = main_assembly
    /\ pc' = "assembled"
    /\ UNCHANGED <<verb, block, oid, err, files, log, i, prefix, failed, args>>

main_render ==
    /\ prog = "script" /\ pc = "assembled"
    /\ files' = scad_render_to_file(files, tree, MainScad)
    /\ log' = Append(log, Write(MainScad))
    /\ tree' = NoTree
    /\ pc' = "done"
    /\ UNCHANGED <<prog, verb, block, oid, err, i, prefix, failed, args>>

Next ==
    \/ Fire
    \/ pie_slice
    \/ pie_pan
    \/ test_pan
    \/ test_slice
    \/ render_to_file
    \/ CliReturn
    \/ make_blocks
    \/ loop_construct
    \/ loop_set_filename
    \/ os_system
    \/ pan_construct
    \/ main_build
    \/ main_render

Spec == Init /\ [][Next]_vars

---------------------------------------------------------------------------
(* Reading the trees a state holds.                                        *)

IsPieSlice(t) ==
    /\ t.op = "union"
    /\ Len(t.children) = 2
    /\ t.children[1].op = "translate"
    /\ t.children[2].op = "rotate_extrude"

IsPan(t) ==
    /\ t.op = "difference"
    /\ Len(t.children) = 2
    /\ t.children[1].op = "cylinder"
    /\ t.children[2].op = "translate"

IsTest(t) ==
    /\ t.op = "union"
    /\ Len(t.children) = 2
    /\ IsPan(t.children[1])
    /\ t.children[2].op = "translate"
    /\ IsPieSlice(t.children[2].children[1])

SliceParts(t) ==
    IF IsPieSlice(t) THEN {t}
    ELSE IF IsTest(t) THEN {t.children[2].children[1]}
    ELSE {}

PanParts(t) ==
    IF IsPan(t) THEN {t}
    ELSE IF IsTest(t) THEN {t.children[1]}
    ELSE {}

Revolve(ps) == ps.children[2]
Square(ps) == Revolve(ps).children[1].children[1].children[1]
LabelRotate(ps) == ps.children[1].children[1]
Glyphs(ps) == LabelRotate(ps).children[1].children[1].children[1].children
OuterRadius(pn) == pn.children[1].r
InnerRadius(pn) == pn.children[2].children[1].r

(* Every tree in a local or in a file.                                     *)
VisibleTrees ==
    {f.tree : f \in files} \cup (IF tree = NoTree THEN {} ELSE {tree})

(* The trees built from the object in hand: the one its method holds, or   *)
(* the file the method wrote.                                              *)
CurrentTrees ==
    IF block = NoBlock THEN {}
    ELSE IF pc \in {"assembling", "assembled"} THEN {tree}
    ELSE IF pc \in {"written", "done"}
         THEN {f.tree : f \in {g \in files : g.name = block.filename}}
    ELSE {}

CurrentSlices == UNION {SliceParts(t) : t \in CurrentTrees}
CurrentPans == UNION {PanParts(t) : t \in CurrentTrees}

---------------------------------------------------------------------------
(* C1: for positive n <= d the derived angle is 360*n/d degrees            *)
(* (angle(1,3) = 120, angle(1,1) = 360); the slice is revolved through     *)
(* that angle and the label is rotated by half of it.                      *)
C1_AngleIs360NOverD ==
    (block # NoBlock /\ 1 <= block.numerator
                     /\ block.numerator <= block.denominator) =>
        LET n == block.numerator
            d == block.denominator
            a == block._angle
        IN  /\ a[2] > 0
            /\ a[1] * d = 360 * n * a[2]
            /\ (n = 1 /\ d = 3) => a = <<120, 1>>
            /\ (n = d) => a = <<360, 1>>
            /\ \A ps \in CurrentSlices :
                  LET rev == Revolve(ps).angle
                      rot == LabelRotate(ps).a
                  IN  /\ Revolve(ps).op = "rotate_extrude"
                      /\ rev[1] * d = 360 * n * rev[2]
                      /\ LabelRotate(ps).op = "rotate"
                      /\ 2 * rot[1] * d = 360 * n * rot[2]

C1_Witness ==
    /\ block # NoBlock
    /\ block.numerator = 1 /\ block.denominator = 3
    /\ pc = "written" /\ verb = "pie_slice"
    /\ \E ps \in CurrentSlices :
          Revolve(ps).angle = <<120, 1>> /\ LabelRotate(ps).a = <<60, 1>>

C3_Claim ==
    /\ \A t \in VisibleTrees : \A ps \in SliceParts(t) :
          /\ Square(ps).op = "square"
          /\ RLt(Q(0), Square(ps).size[1])
          /\ RLt(Q(0), Square(ps).size[2])
    /\ (/\ block # NoBlock
        /\ verb \in {"pie_slice", "test"}
        /\ pc \in {"assembled", "written", "done"}
        /\ \/ 2 * block.fillet >= block.slice_radius
           \/ 2 * block.fillet >= block.slice_height)
       => err = "InvalidDimensionError"

(* C4 as claimed: every pan tree has innerRadius = slice_radius +          *)
(* slice_pan_gap, outerRadius = innerRadius + pan_wall_width and           *)
(* outerRadius > innerRadius > 0; a config with slice_pan_gap < 0 or       *)
(* pan_wall_width <= 0 yields no pan tree.                                 *)
C4_Claim ==
    \A pn \in CurrentPans :
        LET inner == InnerRadius(pn)
            outer == OuterRadius(pn)
        IN  /\ inner = Q(block.slice_radius + block.slice_pan_gap)
            /\ outer = RAdd(inner, Q(block.pan_wall_width))
            /\ RLt(inner, outer)
            /\ RLt(Q(0), inner)
            /\ block.slice_pan_gap >= 0
            /\ block.pan_wall_width > 0

(* The layout of a pie slice's label for radius r and position p.          *)
LabelLayout(ps, r, p, num, den, dividerScale) ==
    LET g == Glyphs(ps)
        off(k) == g[k].v[2]
        twenty == Q(20)
    IN  /\ Len(g) = 3
        /\ \A k \in 1..3 : g[k].op = "translate" /\ g[k].v[1] = Q(0)
                           /\ Len(g[k].children) = 1
        /\ RMul(Q(4), off(1)) = RAdd(Q(r), RMul(Q(4), p))
        /\ RMul(twenty, off(2)) = RAdd(Q(9 * r), RMul(twenty, p))
        /\ RMul(Q(4), off(3)) = RAdd(Q(3 * r), RMul(Q(4), p))
        /\ RLt(off(1), off(2)) /\ RLt(off(2), off(3))
        /\ \A k \in {1, 3} :
              /\ g[k].children[1].op = "rotate"
              /\ g[k].children[1].a = Q(180)
              /\ g[k].children[1].children[1].op = "text"
        /\ g[1].children[1].children[1].text = ToString(num)
        /\ g[3].children[1].children[1].text = ToString(den)
        /\ g[2].children[1].op = "scale"
        /\ g[2].children[1].v = <<dividerScale, Q(1), Q(1)>>
        /\ g[2].children[1].children[1].op = "text"
        /\ g[2].children[1].children[1].text = VINCULUM

(* C5: the label is three glyphs in the order numerator, vinculum,         *)
(* denominator at radial offsets r/4 + p, r/2 - 0.05 r + p and 3r/4 + p,   *)
(* strictly increasing for r > 0; only the vinculum is scaled (by the      *)
(* divider scale, horizontally) and only numerator and denominator are     *)
(* rotated by 180 degrees.                                                 *)
C5_LabelLayout ==
    /\ \A ps \in CurrentSlices :
          block.slice_radius > 0 =>
              /\ LabelLayout(ps, block.slice_radius, Q(block.label_position),
                             block.numerator, block.denominator,
                             block.label_divider_scale)
              /\ block.slice_radius = 50 =>
                    /\ Glyphs(ps)[1].v[2] = RAdd(<<25, 2>>, Q(block.label_position))
                    /\ Glyphs(ps)[2].v[2] = RAdd(<<45, 2>>, Q(block.label_position))
                    /\ Glyphs(ps)[3].v[2] = RAdd(<<75, 2>>, Q(block.label_position))
    /\ prog = "script" =>
          \A t \in VisibleTrees : \A ps \in SliceParts(t) :
              LabelLayout(ps, 50, <<5, 2>>, 1, 3, Q(1))

C5_Witness ==
    /\ prog = "batch" /\ pc = "written"
    /\ block.denominator = 16
    /\ \E ps \in CurrentSlices :
          /\ Glyphs(ps)[1].v[2] = <<29, 2>>
          /\ Glyphs(ps)[2].v[2] = <<49, 2>>
          /\ Glyphs(ps)[3].v[2] = <<79, 2>>
          /\ Glyphs(ps)[2].children[1].v[1] = <<7, 10>>

(* The slices a batch run is to build, read from the files.                *)
BatchDenominators == {1, 2, 3, 4, 5, 6, 7, 8, 9, 10, 12, 16}
NarrowDenominators == {9, 10, 12, 16}
NumeratorText(ps) == Glyphs(ps)[1].children[1].children[1]
VinculumScale(ps) == Glyphs(ps)[2].children[1]
DenominatorText(ps) == Glyphs(ps)[3].children[1].children[1]
SliceFiles == {f \in files : IsPieSlice(f.tree)}

(* C6: a batch run builds exactly one pie slice per denominator in         *)
(* {1,2,3,4,5,6,7,8,9,10,12,16}, each with numerator 1, and none for any   *)
(* other denominator; for 9, 10, 12 and 16 the font size, divider scale    *)
(* and label position are each strictly below the default, for the others  *)
(* all three are the default.                                              *)
C6_BatchPlan ==
    prog = "batch" =>
        /\ (pc \in {"built", "constructed", "assembled", "written"} /\ i <= 12) =>
              /\ block.numerator = 1
              /\ block.denominator \in BatchDenominators
              /\ Cardinality({x \in BatchDenominators : x < block.denominator}) = i - 1
              /\ IF block.denominator \in NarrowDenominators
                 THEN /\ block.label_font_size < Defaults.label_font_size
                      /\ RLt(block.label_divider_scale, Defaults.label_divider_scale)
                      /\ block.label_position < Defaults.label_position
                 ELSE /\ block.label_font_size = Defaults.label_font_size
                      /\ block.label_divider_scale = Defaults.label_divider_scale
                      /\ block.label_position = Defaults.label_position
              /\ \A ps \in CurrentSlices :
                    /\ DenominatorText(ps).text = ToString(block.denominator)
                    /\ DenominatorText(ps).size = Q(block.label_font_size)
                    /\ VinculumScale(ps).v[1] = block.label_divider_scale
        /\ \A f \in SliceFiles :
              /\ NumeratorText(f.tree).text = "1"
              /\ DenominatorText(f.tree).text \in {ToString(x) : x \in BatchDenominators}
              /\ \A g \in SliceFiles :
                    DenominatorText(g.tree).text = DenominatorText(f.tree).text => g = f
              /\ Cardinality({k \in 1..Len(log) : log[k] = Write(f.name)}) = 1
        /\ pc = "done" =>
              /\ Cardinality(SliceFiles) = 12
              /\ {DenominatorText(f.tree).text : f \in SliceFiles}
                    = {ToString(x) : x \in BatchDenominators}

C6_Witness ==
    /\ prog = "batch" /\ pc = "done"
    /\ Cardinality(SliceFiles) = 12
    /\ \E f \in SliceFiles :
          /\ DenominatorText(f.tree).text = "12"
          /\ DenominatorText(f.tree).size = Q(9)

(* C7 as claimed: a renderer invocation that exits non-zero or produces no *)
(* output surfaces an ExternalRenderError and is not retried, and a batch  *)
(* run never completes as a success after one.                             *)
C7_Claim ==
    (prog = "batch" /\ failed) =>
        /\ err = "ExternalRenderError"
        /\ pc # "done"

(* The complete tree of each generation mode.                              *)
Complete(v, t) ==
    CASE v = "pie_slice" -> IsPieSlice(t)
      [] v = "pie_pan" -> IsPan(t)
      [] v = "test" -> IsTest(t)
      [] OTHER -> FALSE

(* C8: when construction fails nothing is written; a file is written only  *)
(* from a successfully constructed config and the complete tree of the     *)
(* requested mode, and no file ever holds a partial tree.                  *)
C8_WriteOnlyAfterBuild ==
    /\ [](err # "none" =>
            /\ pc = "aborted"
            /\ block = NoBlock /\ tree = NoTree /\ files = {} /\ log = <<>>)
    /\ [](\A f \in files : IsPieSlice(f.tree) \/ IsPan(f.tree) \/ IsTest(f.tree))
    /\ [][(files' # files /\ prog # "script") =>
            /\ err = "none" /\ block # NoBlock
            /\ pc = "assembled"
            /\ Complete(verb, tree)
            /\ files' = {f \in files : f.name # block.filename}
                            \cup {[name |-> block.filename, tree |-> tree]}]_vars

C8_Witness ==
    /\ prog = "cli" /\ pc = "aborted" /\ verb = "test"
    /\ err = "ZeroDivisionError"
    /\ files = {} /\ tree = NoTree

(* The object between two steps is the same one when no constructor    *)
(* ran; its angle is fresh when it is 360 * numerator / denominator.       *)
SameObject == block # NoBlock /\ block' # NoBlock /\ oid' = oid

AngleFresh ==
    block # NoBlock =>
        /\ block._angle[2] > 0
        /\ block._angle[1] * block.denominator
              = 360 * block.numerator * block._angle[2]

(* C9 as claimed: no field of a config changes after construction, and     *)
(* the stored angle is never stale.                                        *)
C9_Claim ==
    /\ [][SameObject => block' = block]_vars
    /\ []AngleFresh

(* C9 as amended: after construction no field other than filename ever     *)
(* changes (the batch driver assigns block.filename once, right after      *)
(* constructing each slice's block), and the stored angle is never stale.  *)
C9_OnlyFilenameReassigned ==
    /\ [][SameObject =>
            /\ DOMAIN block' = DOMAIN block
            /\ \A fld \in DOMAIN block \ {"filename"} : block'[fld] = block[fld]
            /\ block'.filename # block.filename => (prog = "batch" /\ pc = "built")]_vars
    /\ []AngleFresh

C9_Witness ==
    /\ prog = "batch" /\ pc = "written"
    /\ block # NoBlock
    /\ block.filename = "fb_1_7.scad"
    /\ block._angle = <<360, 7>>

(* The positions in the log of the renderer's invocations on a file.       *)
Systems(name) == {k \in 1..Len(log) : log[k].ev = "system" /\ log[k].input = name}
IsPanFile(name) == \E f \in files : f.name = name /\ IsPan(f.tree)

(* C10: in a batch run the renderer is invoked on a description file only  *)
(* after that file has been written with its finished tree, exactly once   *)
(* per written file, and the pan's pipeline comes after all twelve slice   *)
(* pipelines.                                                              *)
C10_RenderAfterWrite ==
    prog = "batch" =>
        /\ \A k \in 1..Len(log) :
              log[k].ev = "system" =>
                  /\ k > 1 /\ log[k - 1] = Write(log[k].input)
                  /\ \E f \in files :
                        f.name = log[k].input /\ (IsPieSlice(f.tree) \/ IsPan(f.tree))
                  /\ Systems(log[k].input) = {k}
        /\ \A k \in 1..Len(log) :
              log[k].ev = "write" =>
                  /\ k < Len(log) => Systems(log[k].file) = {k + 1}
                  /\ k = Len(log) => (Systems(log[k].file) = {} /\ pc = "written")
                  /\ IsPanFile(log[k].file) =>
                        /\ k = 25
                        /\ \A j \in 1..24 : ~IsPanFile(IF log[j].ev = "write"
                                                       THEN log[j].file
                                                       ELSE log[j].input)
                        /\ Cardinality(SliceFiles) = 12
                        /\ \A f \in SliceFiles : Systems(f.name) # {}
        /\ pc = "done" => (Len(log) = 26 /\ IsPanFile(log[26].input))

C10_Witness ==
    /\ prog = "batch" /\ pc = "done"
    /\ Len(log) = 26
    /\ log[26].ev = "system" /\ log[26].input = "x_pie_pan.scad"
    /\ log[26].output = "x_pie_pan.stl"
    /\ log[1] = Write("x_1_1.scad")

====
